---- MODULE Spec2Model ----
(***************************************************************************)
(* LoveCare scoring engine (backend/app/service/scoring.py).               *)
(*                                                                         *)
(* The engine is a set of pure functions over numeric series.  Each        *)
(* function is an operator below; each specification draws the arguments   *)
(* of one entry point in Init and applies the function in its action.      *)
(*                                                                         *)
(* Numbers.  Python floats are modelled as exact rationals [n, d] in       *)
(* lowest terms with d > 0.  The record with d = 0 stands for the          *)
(* ZeroDivisionError a division by zero raises; it propagates through      *)
(* every later operation, as the exception propagates through the caller.  *)
(* Binary rounding error of the float operations is not modelled.          *)
(***************************************************************************)
EXTENDS Integers, Sequences, FiniteSets

VARIABLES pc, args, locals, ret

vars == <<pc, args, locals, ret>>

(***************************************************************************)
(* Bounds of the model.                                                    *)
(***************************************************************************)
\* clamp / normalize_0_100 arguments range over the integers -MaxVal..MaxVal
MaxVal == 3
\* longest stress series given to calculate_stress_accumulation
MaxLen == 4
\* largest max_reasons given to calculate_burnout_risk
MaxReasons == 4
\* longest series given to generate_report
MaxDays == 2
\* math.sqrt is computed to a resolution of 1/SqrtResolution
SqrtResolution == 100
\* longest stress series paired with a decay of 0.99 (the powers of 99/100
\* must stay within the model checker's 32-bit integers)
MaxLenFineDecay == 3

(***************************************************************************)
(* Exact rational arithmetic standing for float arithmetic.                *)
(***************************************************************************)
Abs(i) == IF i < 0 THEN -i ELSE i

RECURSIVE GCD(_, _)
GCD(a, b) == IF b = 0 THEN a ELSE GCD(b, a % b)

ZeroDivisionError == [n |-> 0, d |-> 0]

Q(num, den) ==
    IF den = 0 THEN ZeroDivisionError
    ELSE LET g == GCD(Abs(num), Abs(den))
             s == IF den < 0 THEN -1 ELSE 1
         IN [n |-> s * (num \div g), d |-> s * (den \div g)]

I(i) == [n |-> i, d |-> 1]

Raised(a) == a.d = 0

RNeg(a) == [n |-> -a.n, d |-> a.d]
RAbs(a) == [n |-> Abs(a.n), d |-> a.d]
RAdd(a, b) ==
    IF a.d = 0 \/ b.d = 0 THEN ZeroDivisionError
    ELSE LET g == GCD(a.d, b.d)
         IN Q(a.n * (b.d \div g) + b.n * (a.d \div g), (a.d \div g) * b.d)
RSub(a, b) == RAdd(a, RNeg(b))
RMul(a, b) ==
    IF a.d = 0 \/ b.d = 0 THEN ZeroDivisionError
    ELSE LET g1 == GCD(Abs(a.n), b.d)
             g2 == GCD(Abs(b.n), a.d)
         IN Q((a.n \div g1) * (b.n \div g2), (a.d \div g2) * (b.d \div g1))
RDiv(a, b) ==
    IF a.d = 0 \/ b.d = 0 THEN ZeroDivisionError
    ELSE RMul(a, Q(b.d, b.n))

RLe(a, b) == a.n * b.d <= b.n * a.d
RLt(a, b) == a.n * b.d < b.n * a.d
RGe(a, b) == RLe(b, a)
RGt(a, b) == RLt(b, a)

\* Python's max(a, b) returns b only when b > a; min(a, b) only when b < a
RMax(a, b) == IF Raised(a) \/ Raised(b) THEN ZeroDivisionError
              ELSE IF RGt(b, a) THEN b ELSE a
RMin(a, b) == IF Raised(a) \/ Raised(b) THEN ZeroDivisionError
              ELSE IF RLt(b, a) THEN b ELSE a

RECURSIVE Pow10(_)
Pow10(k) == IF k = 0 THEN 1 ELSE 10 * Pow10(k - 1)

FloorDiv(a, b) == a \div b

\* the first k decimal digits of r/d (0 <= r < d) as an integer, and the
\* remainder left, one digit at a time
RECURSIVE Digits(_, _, _, _)
Digits(r, d, k, acc) ==
    IF k = 0 THEN [q |-> acc, r |-> r]
    ELSE Digits((r * 10) % d, d, k - 1, acc * 10 + ((r * 10) \div d))

\* round(x, nd): to the nearest multiple of 10^-nd, an exact tie to the even one
Round(x, nd) ==
    IF Raised(x) THEN ZeroDivisionError
    ELSE LET whole == FloorDiv(x.n, x.d)
             frac  == Digits(x.n - whole * x.d, x.d, nd, 0)
             k     == whole * Pow10(nd) + frac.q
             up    == \/ 2 * frac.r > x.d
                      \/ (2 * frac.r = x.d /\ k % 2 = 1)
         IN Q(IF up THEN k + 1 ELSE k, Pow10(nd))

\* the largest i with i * i <= m
RECURSIVE ISqrtBetween(_, _, _)
ISqrtBetween(m, lo, hi) ==
    IF lo >= hi THEN lo
    ELSE LET mid == (lo + hi + 1) \div 2
         IN IF mid * mid <= m THEN ISqrtBetween(m, mid, hi)
            ELSE ISqrtBetween(m, lo, mid - 1)

\* math.sqrt(x), x >= 0, to the resolution of the model
Sqrt(x) ==
    IF Raised(x) THEN ZeroDivisionError
    ELSE LET m == (x.n * SqrtResolution * SqrtResolution) \div x.d
         IN Q(ISqrtBetween(m, 0, 40000), SqrtResolution)

RECURSIVE Sum(_)
Sum(xs) == IF xs = <<>> THEN I(0) ELSE RAdd(Head(xs), Sum(Tail(xs)))

(***************************************************************************)
(* Utility functions.                                                      *)
(***************************************************************************)
clamp_swapped(x, lo, hi) == RMin(lo, RMax(hi, x))

clamp(x, lo, hi) == RMax(lo, RMin(hi, x))

mean_unguarded(xs) == RDiv(Sum(xs), I(Len(xs)))

mean(xs) == IF xs # <<>> THEN RDiv(Sum(xs), I(Len(xs))) ELSE I(0)

stddev(xs) ==
    IF xs = <<>> THEN I(0)
    ELSE LET m   == mean(xs)
             sq  == [i \in 1..Len(xs) |-> RMul(RSub(xs[i], m), RSub(xs[i], m))]
             var == RDiv(Sum(sq), I(Len(xs)))
         IN Sqrt(var)

avg_abs_delta(xs) ==
    IF Len(xs) < 2 THEN I(0)
    ELSE LET ds == [i \in 1..(Len(xs) - 1) |-> RAbs(RSub(xs[i + 1], xs[i]))]
         IN RDiv(Sum(ds), I(Len(xs) - 1))

linear_trend_slope(xs) ==
    LET n == Len(xs) IN
    IF n < 2 THEN I(0)
    ELSE LET t_mean == Q(n - 1, 2)
             x_mean == mean(xs)
             dt(i)  == RSub(I(i - 1), t_mean)
             num    == Sum([i \in 1..n |-> RMul(dt(i), RSub(xs[i], x_mean))])
             den    == Sum([i \in 1..n |-> RMul(dt(i), dt(i))])
         IN IF den # I(0) THEN RDiv(num, den) ELSE I(0)

normalize_0_100_unclamped(x, x_min, x_max) ==
    IF RLe(x_max, x_min) THEN I(0)
    ELSE RMul(RDiv(RSub(x, x_min), RSub(x_max, x_min)), I(100))

normalize_0_100(x, x_min, x_max) ==
    IF RLe(x_max, x_min) THEN I(0)
    ELSE clamp(RMul(RDiv(RSub(x, x_min), RSub(x_max, x_min)), I(100)),
               I(0), I(100))

(***************************************************************************)
(* State shared by the specifications.                                     *)
(***************************************************************************)
Pending == [fn |-> "none", status |-> "pending"]

\* no local variable of the call is kept in the state
NoLocals == [fn |-> "none"]

Nums == {I(i) : i \in -MaxVal..MaxVal}

(***************************************************************************)
(* clamp(x, lo, hi)                                                        *)
(***************************************************************************)
InitClamp ==
    /\ pc = "clamp"
    /\ args \in [x : Nums, lo : Nums, hi : Nums]
    /\ locals = NoLocals
    /\ ret = Pending

CallClamp ==
    /\ pc = "clamp"
    /\ ret' = [fn |-> "clamp", status |-> "ok",
               value |-> clamp(args.x, args.lo, args.hi)]
    /\ pc' = "done"
    /\ UNCHANGED <<args, locals>>

SpecClamp == InitClamp /\ [][CallClamp]_vars

ClampDone == pc = "done" /\ ret.fn = "clamp"

\* C8 (as stated): for all x, lo and hi the result lies in [lo, hi] and
\* clamping the result again changes nothing.
C8_AsStated ==
    ClampDone =>
        /\ RLe(args.lo, ret.value) /\ RLe(ret.value, args.hi)
        /\ clamp(ret.value, args.lo, args.hi) = ret.value

\* C8 (amended): the result is never below lo; it lies in [lo, hi] whenever
\* lo <= hi; it is lo whenever lo > hi; clamping the result again changes
\* nothing, for all x, lo and hi.
C8_ClampRangeAndIdempotent ==
    ClampDone =>
        /\ RLe(args.lo, ret.value)
        /\ RLe(args.lo, args.hi) => RLe(ret.value, args.hi)
        /\ RLt(args.hi, args.lo) => ret.value = args.lo
        /\ ret.value \in {args.x, args.lo, args.hi}
        /\ (RLe(args.lo, args.x) /\ RLe(args.x, args.hi)) => ret.value = args.x
        /\ clamp(ret.value, args.lo, args.hi) = ret.value

\* a value outside a proper range has been clamped to a bound of the range
C8_Witness ==
    /\ ClampDone
    /\ RLt(args.lo, args.hi)
    /\ RGt(args.x, args.hi)
    /\ ret.value = args.hi

(***************************************************************************)
(* normalize_0_100(x, x_min, x_max)                                        *)
(***************************************************************************)
InitNormalize ==
    /\ pc = "normalize_0_100"
    /\ args \in [x : Nums, x_min : Nums, x_max : Nums]
    /\ locals = NoLocals
    /\ ret = Pending

CallNormalize ==
    /\ pc = "normalize_0_100"
    /\ ret' = [fn |-> "normalize_0_100", status |-> "ok",
               value  |-> normalize_0_100(args.x, args.x_min, args.x_max)]
    /\ pc' = "done"
    /\ UNCHANGED <<args, locals>>

SpecNormalize == InitNormalize /\ [][CallNormalize]_vars

NormalizeDone == pc = "done" /\ ret.fn = "normalize_0_100"

\* C7: for x_min < x_max the result is non-decreasing in x, 0 at and below
\* x_min, 100 at and above x_max, and always within [0, 100]; for
\* x_max <= x_min it is 0 for every x.
C7_NormalizeMonotoneClamped ==
    NormalizeDone =>
        /\ RLe(I(0), ret.value) /\ RLe(ret.value, I(100))
        /\ RLe(args.x_max, args.x_min) => ret.value = I(0)
        /\ RLt(args.x_min, args.x_max) =>
              /\ RLe(args.x, args.x_min) => ret.value = I(0)
              /\ RGe(args.x, args.x_max) => ret.value = I(100)
              /\ \A y \in Nums :
                    RLe(y, args.x) =>
                        RLe(normalize_0_100(y, args.x_min, args.x_max), ret.value)
              /\ (RLt(args.x_min, args.x) /\ RLt(args.x, args.x_max)) =>
                    /\ RLt(I(0), ret.value) /\ RLt(ret.value, I(100))
                    /\ RMul(ret.value, RSub(args.x_max, args.x_min))
                         = RMul(I(100), RSub(args.x, args.x_min))

\* an interior point of a proper range has been mapped strictly inside (0, 100)
C7_Witness ==
    /\ NormalizeDone
    /\ RLt(args.x_min, args.x) /\ RLt(args.x, args.x_max)
    /\ RLt(I(0), ret.value) /\ RLt(ret.value, I(100))
    /\ ret.value # I(50)

(***************************************************************************)
(* ScoringConfig and the default instance.                                 *)
(***************************************************************************)
DEFAULT_CFG ==
    [vol_w_std             |-> Q(6, 10),
     vol_w_jump            |-> Q(4, 10),
     mood_std_min          |-> I(0),
     mood_std_max          |-> Q(35, 10),
     mood_jump_min         |-> I(0),
     mood_jump_max         |-> I(4),
     stress_decay          |-> Q(8, 10),
     risk_w_stress         |-> Q(45, 100),
     risk_w_sleep_deficit  |-> Q(20, 100),
     risk_w_energy_deficit |-> Q(25, 100),
     risk_w_mood_downtrend |-> Q(10, 100),
     sleep_target          |-> I(8),
     risk_raw_min          |-> I(0),
     risk_raw_max          |-> I(10),
     green_max             |-> I(33),
     yellow_max            |-> I(66)]

(***************************************************************************)
(* calculate_stress_accumulation(stress, cfg)                              *)
(***************************************************************************)
DecayUnclamped(cfg) == cfg.stress_decay

Decay(cfg) == clamp(cfg.stress_decay, I(0), Q(99, 100))

\* the curve list after the loop over stress, before any rounding
RECURSIVE Accumulate(_, _, _)
Accumulate(stress, decay, prev) ==
    IF stress = <<>> THEN <<>>
    ELSE LET cur == RAdd(RMul(decay, prev), Head(stress))
         IN <<cur>> \o Accumulate(Tail(stress), decay, cur)

calculate_stress_accumulation(stress, cfg) ==
    LET decay == Decay(cfg)
        curve == Accumulate(stress, decay, I(0))
        slope == linear_trend_slope(curve)
    IN [accumulation_curve       |-> [i \in 1..Len(curve) |-> Round(curve[i], 3)],
        accumulation_trend_slope |-> Round(slope, 4),
        latest_accumulation      |->
            IF curve # <<>> THEN Round(curve[Len(curve)], 3) ELSE I(0)]

SeqsUpTo(S, n) == UNION {[1..k -> S] : k \in 0..n}

StressLevels == {I(0), I(1), I(2)}

CoarseDecays == {Q(-1, 2), I(0), Q(1, 2), Q(8, 10)}
FineDecays == {Q(99, 100), Q(3, 2)}

InitAccumulation ==
    /\ pc = "calculate_stress_accumulation"
    /\ \E stress \in SeqsUpTo(StressLevels, MaxLen),
          decay \in CoarseDecays \cup FineDecays :
          /\ decay \in FineDecays => Len(stress) <= MaxLenFineDecay
          /\ args = [stress |-> stress,
                     cfg    |-> [DEFAULT_CFG EXCEPT !.stress_decay = decay]]
    /\ locals = NoLocals
    /\ ret = Pending

CallAccumulation ==
    /\ pc = "calculate_stress_accumulation"
    /\ ret' = [fn |-> "calculate_stress_accumulation", status |-> "ok",
               value |-> calculate_stress_accumulation(args.stress, args.cfg)]
    /\ pc' = "done"
    /\ UNCHANGED <<args, locals>>

SpecAccumulation == InitAccumulation /\ [][CallAccumulation]_vars

AccumulationDone == pc = "done" /\ ret.fn = "calculate_stress_accumulation"

RECURSIVE RPow(_, _)
RPow(b, e) == IF e = 0 THEN I(1) ELSE RMul(b, RPow(b, e - 1))

\* the decay the accumulation is specified to use
SpecifiedDecay(configured) ==
    IF RGt(configured, Q(99, 100)) THEN Q(99, 100)
    ELSE IF RLt(configured, I(0)) THEN I(0)
    ELSE configured

\* the solution of A[0] = stress[0], A[i] = d * A[i-1] + stress[i] in closed
\* form: A[i] = sum over k <= i of d^(i-k) * stress[k]  (1-based here)
ClosedFormAccumulation(stress, d, i) ==
    Sum([k \in 1..i |-> RMul(RPow(d, i - k), stress[k])])

IsThousandth(x) == 1000 % x.d = 0

\* C6: the returned curve has the length of the input; its i-th value is A[i]
\* given to 3 decimals, where A[0] = stress[0], A[i] = d * A[i-1] + stress[i]
\* and d is the configured decay clamped to [0, 0.99]; latest_accumulation is
\* the last value of the curve; an empty input gives an empty curve, slope 0
\* and latest 0; stress = [1,1,1,1] with decay 0.8 gives
\* [1.0, 1.8, 2.44, 2.952].
C6_AccumulationRecurrence ==
    AccumulationDone =>
        LET stress == args.stress
            d      == SpecifiedDecay(args.cfg.stress_decay)
            out    == ret.value
            curve  == out.accumulation_curve
        IN /\ Len(curve) = Len(stress)
           /\ \A i \in 1..Len(stress) :
                 /\ IsThousandth(curve[i])
                 /\ RLe(RAbs(RSub(curve[i], ClosedFormAccumulation(stress, d, i))),
                        Q(1, 2000))
           /\ stress # <<>> =>
                 /\ curve[1] = stress[1]
                 /\ out.latest_accumulation = curve[Len(curve)]
           /\ stress = <<>> =>
                 /\ curve = <<>>
                 /\ out.accumulation_trend_slope = I(0)
                 /\ out.latest_accumulation = I(0)
           /\ (stress = <<I(1), I(1), I(1), I(1)>> /\ args.cfg.stress_decay = Q(8, 10)) =>
                 curve = <<I(1), Q(18, 10), Q(244, 100), Q(2952, 1000)>>

\* a configured decay above 0.99 has been applied to a series long enough for
\* the accumulated value to need rounding to 3 decimals
C6_Witness ==
    /\ AccumulationDone
    /\ RGt(args.cfg.stress_decay, Q(99, 100))
    /\ Len(args.stress) = 3
    /\ ret.value.accumulation_curve[3]
         # ClosedFormAccumulation(args.stress, Q(99, 100), 3)
    /\ ret.value.accumulation_curve[2] = RAdd(RMul(Q(99, 100), args.stress[1]), args.stress[2])

(***************************************************************************)
(* calculate_burnout_risk(mood, stress, sleep, energy, cfg, max_reasons)   *)
(* The debug payload only repeats the components below, rounded, and is    *)
(* left out of the result.                                                 *)
(***************************************************************************)
Fallback == "Overall indicators look stable this week."

HighMessage ==
    [stress |-> "High average stress over the past week.",
     sleep  |-> "Significant sleep deficit compared to the 8-hour target.",
     energy |-> "Low energy levels on average.",
     mood   |-> "Mood has been trending downward across the week."]

ModerateMessage ==
    [stress |-> "Moderate stress levels have been persistent.",
     sleep  |-> "Not consistently meeting the 8-hour sleep target.",
     energy |-> "Energy levels have been slightly below ideal.",
     mood   |-> "Slight downward mood trend detected."]

\* the quantities computed before the label and the reasons
Components(mood, stress, sleep, energy, cfg) ==
    LET avg_stress     == mean(stress)
        avg_sleep      == mean(sleep)
        avg_energy     == mean(energy)
        sleep_deficit  == RMax(I(0), RSub(cfg.sleep_target, avg_sleep))
        energy_deficit == RMax(I(0), RSub(I(10), avg_energy))
        mood_slope     == linear_trend_slope(mood)
        mood_downtrend == RMax(I(0), RNeg(mood_slope))
        stress_term    == RMul(cfg.risk_w_stress, avg_stress)
        sleep_term     == RMul(cfg.risk_w_sleep_deficit, RMul(sleep_deficit, I(2)))
        energy_term    == RMul(cfg.risk_w_energy_deficit, RDiv(energy_deficit, I(2)))
        mood_term      == RMul(cfg.risk_w_mood_downtrend, RMul(mood_downtrend, I(5)))
        risk_raw       == RAdd(RAdd(RAdd(stress_term, sleep_term), energy_term), mood_term)
    IN [avg_stress     |-> avg_stress,
        sleep_deficit  |-> sleep_deficit,
        energy_deficit |-> energy_deficit,
        mood_downtrend |-> mood_downtrend,
        term           |-> [stress |-> stress_term, sleep |-> sleep_term,
                            energy |-> energy_term, mood |-> mood_term],
        risk_raw       |-> risk_raw,
        risk_score     |-> normalize_0_100(risk_raw, cfg.risk_raw_min, cfg.risk_raw_max)]

LabelStrict(risk_score, cfg) ==
    IF RLt(risk_score, cfg.green_max) THEN "Green"
    ELSE IF RLt(risk_score, cfg.yellow_max) THEN "Yellow"
    ELSE "Red"

Label(risk_score, cfg) ==
    IF RLe(risk_score, cfg.green_max) THEN "Green"
    ELSE IF RLe(risk_score, cfg.yellow_max) THEN "Yellow"
    ELSE "Red"

ClassifiedRaw(c) == c.risk_raw

\* the quantity the label thresholds are compared with
Classified(c) == c.risk_score

\* one factor's gate: the candidate it appends, if any
Gate(name, measure, high, moderate, contribution) ==
    IF RGe(measure, high)
    THEN <<[name |-> name, contribution |-> contribution, msg |-> HighMessage[name]]>>
    ELSE IF RGe(measure, moderate)
    THEN <<[name |-> name, contribution |-> contribution, msg |-> ModerateMessage[name]]>>
    ELSE <<>>

Candidates(c) ==
       Gate("stress", c.avg_stress, I(7), Q(55, 10), c.term.stress)
    \o Gate("sleep", c.sleep_deficit, I(2), I(1), c.term.sleep)
    \o Gate("energy", c.energy_deficit, I(4), I(2), c.term.energy)
    \o Gate("mood", c.mood_downtrend, Q(35, 100), Q(20, 100), c.term.mood)

RECURSIVE InsertAscending(_, _)
InsertAscending(sorted, cand) ==
    IF sorted = <<>> THEN <<cand>>
    ELSE IF RLe(Head(sorted).contribution, cand.contribution)
    THEN <<Head(sorted)>> \o InsertAscending(Tail(sorted), cand)
    ELSE <<cand>> \o sorted

RECURSIVE InsertDescendingUnstable(_, _)
InsertDescendingUnstable(sorted, cand) ==
    IF sorted = <<>> THEN <<cand>>
    ELSE IF RGt(Head(sorted).contribution, cand.contribution)
    THEN <<Head(sorted)>> \o InsertDescendingUnstable(Tail(sorted), cand)
    ELSE <<cand>> \o sorted

\* candidates.sort(key=contribution, reverse=True): a stable sort, so a
\* candidate goes behind every one already placed whose key is not smaller
RECURSIVE InsertDescending(_, _)
InsertDescending(sorted, cand) ==
    IF sorted = <<>> THEN <<cand>>
    ELSE IF RGe(Head(sorted).contribution, cand.contribution)
    THEN <<Head(sorted)>> \o InsertDescending(Tail(sorted), cand)
    ELSE <<cand>> \o sorted

\* the candidates taken in list order, each inserted into the sorted list
RECURSIVE SortInto(_, _)
SortInto(cands, sorted) ==
    IF cands = <<>> THEN sorted
    ELSE SortInto(Tail(cands), InsertDescending(sorted, Head(cands)))

SortByContribution(cands) == SortInto(cands, <<>>)

Max(a, b) == IF a >= b THEN a ELSE b
Min(a, b) == IF a <= b THEN a ELSE b

KeepAll(cands, max_reasons) == cands

\* candidates[:max(0, int(max_reasons))]
Cap(cands, max_reasons) == SubSeq(cands, 1, Min(Len(cands), Max(0, max_reasons)))

ReportedScore(risk_score) == Round(risk_score, 2)

\* the function from its components c on: label, ranked reasons, result
BurnoutResult(c, cfg, max_reasons) ==
    LET label   == Label(Classified(c), cfg)
        kept    == Cap(SortByContribution(Candidates(c)), max_reasons)
        msgs    == [i \in 1..Len(kept) |-> kept[i].msg]
        reasons == IF msgs = <<>> THEN <<Fallback>> ELSE msgs
    IN [burnout_risk_score |-> ReportedScore(c.risk_score),
        burnout_risk_label |-> label,
        burnout_reasons    |-> reasons]

calculate_burnout_risk(mood, stress, sleep, energy, cfg, max_reasons) ==
    BurnoutResult(Components(mood, stress, sleep, energy, cfg), cfg, max_reasons)

(***************************************************************************)
(* calculate_volatility, calculate_emotional_battery, generate_report      *)
(***************************************************************************)
calculate_volatility(mood, cfg) ==
    LET sd     == stddev(mood)
        j      == avg_abs_delta(mood)
        s_norm == normalize_0_100(sd, cfg.mood_std_min, cfg.mood_std_max)
        j_norm == normalize_0_100(j, cfg.mood_jump_min, cfg.mood_jump_max)
        score  == RAdd(RMul(cfg.vol_w_std, s_norm), RMul(cfg.vol_w_jump, j_norm))
    IN [mood_std         |-> Round(sd, 4),
        mood_jump        |-> Round(j, 4),
        volatility_score |-> Round(score, 2)]

calculate_emotional_battery(stress, energy) ==
    LET sm      == mean(stress)
        e       == mean(energy)
        battery == RSub(I(100),
                        RMul(RAdd(RMul(Q(6, 10), sm),
                                  RMul(Q(4, 10), RSub(I(10), e))),
                             I(10)))
    IN Round(clamp(battery, I(0), I(100)), 2)

RequiredKeys == <<"mood", "stress", "sleep", "energy">>

Disclaimer == "Wellness insights only. Not medical diagnosis."

\* every number of a report, for the test whether a division raised
ReportNumbers(metrics) ==
    {metrics.volatility.mood_std, metrics.volatility.mood_jump,
     metrics.volatility.volatility_score,
     metrics.stress_accumulation.accumulation_trend_slope,
     metrics.stress_accumulation.latest_accumulation,
     metrics.burnout_risk.burnout_risk_score,
     metrics.emotional_battery}
    \cup {metrics.stress_accumulation.accumulation_curve[i] :
            i \in 1..Len(metrics.stress_accumulation.accumulation_curve)}

\* data["mood"], data["stress"], ... raise KeyError at the first absent key;
\* burnout is called with the default max_reasons = 3
generate_report(data, cfg) ==
    LET missing == {i \in 1..4 : RequiredKeys[i] \notin DOMAIN data}
    IN IF missing # {}
       THEN [fn |-> "generate_report", status |-> "KeyError",
             key |-> RequiredKeys[CHOOSE i \in missing : \A k \in missing : i <= k]]
       ELSE LET metrics ==
                  [volatility          |-> calculate_volatility(data.mood, cfg),
                   stress_accumulation |-> calculate_stress_accumulation(data.stress, cfg),
                   burnout_risk        |-> calculate_burnout_risk(data.mood, data.stress,
                                                data.sleep, data.energy, cfg, 3),
                   emotional_battery   |-> calculate_emotional_battery(data.stress,
                                                data.energy)]
            IN IF \E x \in ReportNumbers(metrics) : Raised(x)
               THEN [fn |-> "generate_report", status |-> "ZeroDivisionError"]
               ELSE [fn |-> "generate_report", status |-> "ok",
                     value |-> [metrics |-> metrics, disclaimer |-> Disclaimer]]

(***************************************************************************)
(* Inputs of calculate_burnout_risk: series on both sides of every gate,   *)
(* of unequal lengths, empty ones included.                                *)
(***************************************************************************)
MoodSeries ==
    {<<>>, <<I(7)>>, <<I(6), I(7)>>, <<I(7), I(6)>>,
     <<I(1), I(0), I(1), I(0)>>, <<I(7), I(7), I(7), I(6)>>}

StressSeries ==
    {<<>>, <<I(5), I(5)>>, <<I(5), I(6)>>, <<I(6), I(6)>>, <<I(7)>>, <<I(8), I(8)>>}

SleepSeries ==
    {<<>>, <<I(8), I(8)>>, <<I(7)>>, <<Q(13, 2), I(7)>>, <<Q(13, 2), Q(13, 2)>>,
     <<I(1), I(1)>>}

EnergySeries ==
    {<<>>, <<I(10), I(10)>>, <<I(10), Q(9994, 1000)>>, <<I(8)>>, <<I(6), I(6)>>,
     <<I(2), I(2)>>}

\* the two label thresholds exchanged
CfgSwappedThresholds ==
    [DEFAULT_CFG EXCEPT !.green_max = I(66), !.yellow_max = I(33)]

\* degenerate normalization ranges: every max <= its min
CfgDegenerateRange ==
    [DEFAULT_CFG EXCEPT !.risk_raw_max = I(0), !.mood_std_max = I(0),
                        !.mood_jump_max = I(-1)]

Configs == {DEFAULT_CFG, CfgSwappedThresholds, CfgDegenerateRange}

InitBurnout ==
    /\ pc = "calculate_burnout_risk"
    /\ args \in [mood : MoodSeries, stress : StressSeries, sleep : SleepSeries,
                 energy : EnergySeries, cfg : Configs,
                 max_reasons : -1..MaxReasons]
    /\ locals = NoLocals
    /\ ret = Pending

\* the call; the components it computed stay in locals
CallBurnout ==
    /\ pc = "calculate_burnout_risk"
    /\ LET c == Components(args.mood, args.stress, args.sleep, args.energy, args.cfg)
       IN /\ locals' = c
          /\ ret' = [fn |-> "calculate_burnout_risk", status |-> "ok",
                     value |-> BurnoutResult(c, args.cfg, args.max_reasons)]
    /\ pc' = "done"
    /\ UNCHANGED args

SpecBurnout == InitBurnout /\ [][CallBurnout]_vars

BurnoutDone == pc = "done" /\ ret.fn = "calculate_burnout_risk"

\* a call as the API layer makes it: four series of one length >= 2 and a
\* max_reasons >= 0
OrdinaryCall ==
    /\ Len(args.mood) >= 2
    /\ Len(args.stress) = Len(args.mood)
    /\ Len(args.sleep) = Len(args.mood)
    /\ Len(args.energy) = Len(args.mood)
    /\ args.max_reasons >= 0

\* an ordinary call under the default configuration
DefaultCall == OrdinaryCall /\ args.cfg = DEFAULT_CFG

(***************************************************************************)
(* What the claims about calculate_burnout_risk speak of.  c is the record *)
(* of components the call left in locals.                                  *)
(***************************************************************************)
Comp == locals

Reasons == ret.value.burnout_reasons

FactorSet == {"stress", "sleep", "energy", "mood"}

FactorIndex == [stress |-> 1, sleep |-> 2, energy |-> 3, mood |-> 4]

\* the measure each factor's gate tests and its two thresholds
GateMeasure(c) ==
    [stress |-> c.avg_stress, sleep |-> c.sleep_deficit,
     energy |-> c.energy_deficit, mood |-> c.mood_downtrend]

HighThreshold ==
    [stress |-> I(7), sleep |-> I(2), energy |-> I(4), mood |-> Q(35, 100)]

ModerateThreshold ==
    [stress |-> Q(55, 10), sleep |-> I(1), energy |-> I(2), mood |-> Q(20, 100)]

Fired(c, f) == RGe(GateMeasure(c)[f], ModerateThreshold[f])

FiredSet(c) == {f \in FactorSet : Fired(c, f)}

GateMessage(c, f) ==
    IF RGe(GateMeasure(c)[f], HighThreshold[f]) THEN HighMessage[f]
    ELSE ModerateMessage[f]

MessagesOf(f) == {HighMessage[f], ModerateMessage[f]}

\* f comes before g in the ranking: a larger weighted term, or an equal one
\* and an earlier place in the order stress, sleep, energy, mood
Precedes(c, f, g) ==
    \/ RGt(c.term[f], c.term[g])
    \/ (c.term[f] = c.term[g] /\ FactorIndex[f] < FactorIndex[g])

Rank(c, fired, f) == Cardinality({g \in fired : Precedes(c, g, f)}) + 1

KeptCount(fired) == Min(Cardinality(fired), Max(0, args.max_reasons))

\* C1 (as stated, on ordinary calls under the default configuration): for
\* every max_reasons >= 0 the reason list has at most max_reasons entries.
C1_AsStated ==
    (BurnoutDone /\ DefaultCall) => Len(Reasons) <= args.max_reasons

\* C1 (amended): for every max_reasons >= 1 the reason list has at most
\* max_reasons entries; for max_reasons = 0 it has exactly one entry; it is
\* never empty.
C1_ReasonsCapped ==
    (BurnoutDone /\ args.max_reasons >= 0) =>
        /\ Len(Reasons) >= 1
        /\ Len(Reasons) <= Max(1, args.max_reasons)

\* more gates fired than max_reasons allows, and the list was cut to max_reasons
C1_Witness ==
    /\ BurnoutDone
    /\ DefaultCall
    /\ args.max_reasons >= 2
    /\ Cardinality(FiredSet(Comp)) > args.max_reasons
    /\ Len(Reasons) = args.max_reasons

\* C2 (on ordinary calls under the default configuration): for every value of
\* max_reasons the result is the single fallback reason if and only if none of
\* the four gates fires, and the fallback message is not in the list whenever
\* a gate fires.
C2_FallbackIffNoGateFires ==
    (BurnoutDone /\ DefaultCall) =>
        LET fired == FiredSet(Comp)
        IN /\ (Reasons = <<Fallback>>) <=> (fired = {})
           /\ fired # {} => \A i \in 1..Len(Reasons) : Reasons[i] # Fallback

\* C3 (as stated, on ordinary calls under the default configuration): whenever
\* a non-fallback reason is returned, the first reason is the message of a
\* factor whose weighted term is the largest of the four.
C3_AsStated ==
    (BurnoutDone /\ DefaultCall /\ Reasons[1] # Fallback) =>
        LET c == Comp
        IN \E f \in FactorSet :
              /\ Reasons[1] \in MessagesOf(f)
              /\ \A g \in FactorSet : RGe(c.term[f], c.term[g])

\* C3 (amended): whenever a non-fallback reason is returned, the first reason
\* is the message of a factor whose gate fired and whose weighted term is the
\* largest among the factors whose gates fired, whatever the order in which
\* the gates are checked.
C3_LargestFiredDriverFirst ==
    (BurnoutDone /\ Reasons[1] # Fallback) =>
        LET c     == Comp
            fired == FiredSet(c)
        IN \E f \in fired :
              /\ Reasons[1] = GateMessage(c, f)
              /\ \A g \in fired : RGe(c.term[f], c.term[g])

\* the stress gate fired, yet a factor checked later leads the list because
\* its term is larger
C3_Witness ==
    /\ BurnoutDone
    /\ DefaultCall
    /\ Len(Reasons) >= 2
    /\ Reasons[1] \in MessagesOf("sleep")
    /\ Reasons[2] \in MessagesOf("stress")
    /\ LET c == Comp
       IN Fired(c, "stress") /\ RGt(c.term.sleep, c.term.stress)

\* C4: the reasons are the messages of the fired gates in order of
\* non-increasing weighted term, factors with equal terms in the order stress,
\* sleep, energy, mood, cut to the first max_reasons (the fallback standing in
\* for an empty list).
C4_RankedStableTruncated ==
    BurnoutDone =>
        LET c     == Comp
            fired == FiredSet(c)
            kept  == KeptCount(fired)
        IN IF kept = 0 THEN Reasons = <<Fallback>>
           ELSE /\ Len(Reasons) = kept
                /\ \A i \in 1..kept :
                      \E f \in fired :
                          Rank(c, fired, f) = i /\ Reasons[i] = GateMessage(c, f)
                /\ \A i \in 1..(kept - 1) :
                      \A f, g \in fired :
                          (/\ Reasons[i] = GateMessage(c, f)
                           /\ Reasons[i + 1] = GateMessage(c, g))
                              => RGe(c.term[f], c.term[g])

\* three fired factors with equal, non-zero weighted terms are listed in the
\* order sleep, energy, mood behind a larger stress term
C4_Witness ==
    /\ BurnoutDone
    /\ DefaultCall
    /\ Len(Reasons) = 4
    /\ Reasons[2] \in MessagesOf("sleep")
    /\ Reasons[3] \in MessagesOf("energy")
    /\ Reasons[4] \in MessagesOf("mood")
    /\ LET c == Comp
       IN /\ FiredSet(c) = FactorSet
          /\ c.term.sleep = c.term.energy
          /\ c.term.energy = c.term.mood
          /\ RGt(c.term.mood, I(0))

\* C5 (as stated, on ordinary calls): Green iff risk_score <= green_max,
\* Yellow iff green_max < risk_score <= yellow_max, Red iff
\* risk_score > yellow_max.
C5_AsStated ==
    (BurnoutDone /\ OrdinaryCall) =>
        LET score == Comp.risk_score
            label == ret.value.burnout_risk_label
            cfg   == args.cfg
        IN /\ label = "Green" <=> RLe(score, cfg.green_max)
           /\ label = "Yellow" <=> (RLt(cfg.green_max, score) /\ RLe(score, cfg.yellow_max))
           /\ label = "Red" <=> RGt(score, cfg.yellow_max)

\* C5 (amended): exactly one label, a function of risk_score and the two
\* thresholds: Green iff risk_score <= green_max, Yellow iff
\* green_max < risk_score <= yellow_max, Red iff risk_score exceeds both
\* thresholds (which is risk_score > yellow_max whenever
\* green_max <= yellow_max).
C5_LabelPartition ==
    BurnoutDone =>
        LET score == Comp.risk_score
            label == ret.value.burnout_risk_label
            cfg   == args.cfg
        IN /\ label \in {"Green", "Yellow", "Red"}
           /\ label = "Green" <=> RLe(score, cfg.green_max)
           /\ label = "Yellow" <=> (RLt(cfg.green_max, score) /\ RLe(score, cfg.yellow_max))
           /\ label = "Red" <=> (RGt(score, cfg.yellow_max) /\ RGt(score, cfg.green_max))
           /\ RLe(cfg.green_max, cfg.yellow_max) =>
                 (label = "Red" <=> RGt(score, cfg.yellow_max))

\* a risk_score exactly on the green threshold of the default configuration
\* has been labelled Green
C5_Witness ==
    /\ BurnoutDone
    /\ DefaultCall
    /\ ret.value.burnout_risk_label = "Green"
    /\ Comp.risk_score = args.cfg.green_max

\* C10 (as stated, on ordinary calls under the default configuration): the
\* label is the band of the reported 2-decimal score:
\* reported <= green_max implies Green, green_max < reported <= yellow_max
\* implies Yellow, reported > yellow_max implies Red.
C10_AsStated ==
    (BurnoutDone /\ DefaultCall) =>
        LET reported == ret.value.burnout_risk_score
            label    == ret.value.burnout_risk_label
            cfg      == args.cfg
        IN /\ RLe(reported, cfg.green_max) => label = "Green"
           /\ (RLt(cfg.green_max, reported) /\ RLe(reported, cfg.yellow_max))
                 => label = "Yellow"
           /\ RGt(reported, cfg.yellow_max) => label = "Red"

HalfCent == Q(5, 1000)

\* C10 (amended): the label is the band of the unrounded risk_score, and the
\* reported score lies within 0.005 of it; so reported <= green_max - 0.005
\* implies Green, green_max + 0.005 < reported <= yellow_max - 0.005 implies
\* Yellow, and reported > max(green_max, yellow_max) + 0.005 implies Red.
C10_LabelMatchesReportedScore ==
    BurnoutDone =>
        LET reported == ret.value.burnout_risk_score
            label    == ret.value.burnout_risk_label
            cfg      == args.cfg
        IN /\ RLe(RAbs(RSub(reported, Comp.risk_score)), HalfCent)
           /\ RLe(reported, RSub(cfg.green_max, HalfCent)) => label = "Green"
           /\ (/\ RGt(reported, RAdd(cfg.green_max, HalfCent))
               /\ RLe(reported, RSub(cfg.yellow_max, HalfCent))) => label = "Yellow"
           /\ (/\ RGt(reported, RAdd(cfg.yellow_max, HalfCent))
               /\ RGt(reported, RAdd(cfg.green_max, HalfCent))) => label = "Red"

\* rounding changed the score, and the reported score is well inside the
\* yellow band of the label
C10_Witness ==
    /\ BurnoutDone
    /\ DefaultCall
    /\ ret.value.burnout_risk_label = "Yellow"
    /\ RGt(ret.value.burnout_risk_score, RAdd(args.cfg.green_max, HalfCent))
    /\ RLe(ret.value.burnout_risk_score, RSub(args.cfg.yellow_max, HalfCent))
    /\ ret.value.burnout_risk_score # Comp.risk_score

(***************************************************************************)
(* generate_report(data, cfg): data is a mapping that may lack keys, with  *)
(* series of unequal lengths, empty ones included.                         *)
(***************************************************************************)
KeySet == {"mood", "stress", "sleep", "energy"}

ReportSeries ==
    [mood   |-> SeqsUpTo({I(3), I(7)}, MaxDays),
     stress |-> SeqsUpTo({I(6)}, MaxDays),
     sleep  |-> SeqsUpTo({I(6)}, MaxDays),
     energy |-> SeqsUpTo({I(5)}, MaxDays)]

Mappings ==
    {[k \in K |-> full[k]] :
        full \in [mood : ReportSeries.mood, stress : ReportSeries.stress,
                  sleep : ReportSeries.sleep, energy : ReportSeries.energy],
        K \in SUBSET KeySet}

InitReport ==
    /\ pc = "generate_report"
    /\ args \in [data : Mappings, cfg : {DEFAULT_CFG, CfgDegenerateRange}]
    /\ locals = NoLocals
    /\ ret = Pending

CallReport ==
    /\ pc = "generate_report"
    /\ ret' = generate_report(args.data, args.cfg)
    /\ pc' = "done"
    /\ UNCHANGED <<args, locals>>

SpecReport == InitReport /\ [][CallReport]_vars

ReportDone == pc = "done" /\ ret.fn = "generate_report"

\* C9: generate_report fails exactly when one of the four required keys is
\* absent (with KeyError); for every mapping holding all four keys -- empty,
\* single-point and unequal-length series, degenerate normalization ranges --
\* it returns the complete report, no division having raised.
C9_FailsOnlyOnMissingKey ==
    ReportDone =>
        /\ ret.status \in {"ok", "KeyError"}
        /\ ret.status = "KeyError" <=> (DOMAIN args.data # KeySet)
        /\ (DOMAIN args.data = KeySet) =>
              /\ ret.status = "ok"
              /\ DOMAIN ret.value = {"metrics", "disclaimer"}
              /\ ret.value.disclaimer = Disclaimer
              /\ DOMAIN ret.value.metrics =
                    {"volatility", "stress_accumulation", "burnout_risk",
                     "emotional_battery"}
              /\ \A x \in ReportNumbers(ret.value.metrics) : ~Raised(x)
              /\ Len(ret.value.metrics.stress_accumulation.accumulation_curve)
                    = Len(args.data.stress)

\* a report was returned for a mapping with an empty series, series of
\* unequal lengths and degenerate normalization ranges
C9_Witness ==
    /\ ReportDone
    /\ ret.status = "ok"
    /\ DOMAIN args.data = KeySet
    /\ args.cfg = CfgDegenerateRange
    /\ args.data.mood = <<>>
    /\ Len(args.data.stress) = 1
    /\ Len(args.data.energy) = 2
    /\ args.data.sleep = <<>>

====
